---- MODULE Spec2Model ----
(***************************************************************************)
(* The conversation and messaging subsystem of the business directory      *)
(* server: POST /send, GET /, GET /:conversationId/messages and            *)
(* PATCH /:conversationId/read of server/routes/message.ts, the            *)
(* messageAuthorization and auth middlewares, User.generateAuthToken,      *)
(* POST /logout, the socket.io gateways of the server entry point and of   *)
(* setupWebSocket, and the MessageSender component of the client.          *)
(*                                                                         *)
(* Values keep the JavaScript / BSON type they have in the code, because   *)
(* several decisions depend on it: an ObjectId n is <<"ObjectId", n>>, its *)
(* 24-hex string rendering is <<"hex", n>>, any other text is              *)
(* <<"text", s>> with s a sequence of characters, and undefined is         *)
(* Undefined.  Mongoose casts a hex string to an ObjectId in find/update   *)
(* filters; an aggregate pipeline is sent uncast.                          *)
(***************************************************************************)
EXTENDS Integers, Sequences, FiniteSets

(***************************************************************************)
(* Bounds of the model.                                                    *)
(***************************************************************************)
MaxSends == 2
MaxClock == 1
MaxTokens == 2

NumUsers == Cardinality({"u1", "u2", "u3"})
Users == 1..NumUsers
Procs == {1, 2}
Conns == {1, 2}

(***************************************************************************)
(* Values.                                                                 *)
(***************************************************************************)
Undefined == <<"undefined", 0>>
Null == [kind |-> "null"]

OID(n) == <<"ObjectId", n>>
Hex(n) == <<"hex", n>>
Text(s) == <<"text", s>>

\* An ObjectId that belongs to no user, conversation or message.
GhostId == NumUsers + 1
ConvBase == GhostId
MsgBase == ConvBase + MaxSends + 1

\* ObjectId.prototype.toString(): the 24-hex rendering.
ToString(x) == IF x[1] = "ObjectId" THEN Hex(x[2]) ELSE x

\* mongoose.Types.ObjectId.isValid
IsValidObjectId(x) == x[1] \in {"ObjectId", "hex"}

\* Mongoose's cast of a filter value against an ObjectId path.
CastObjectId(x) == IF x[1] = "hex" THEN OID(x[2]) ELSE x

\* ObjectId.prototype.equals(other): accepts an ObjectId or its hex string.
OidEquals(a, b) == IsValidObjectId(b) /\ a[2] = b[2]

\* Equality of two BSON values inside the database: type-sensitive.
BsonEq(a, b) == a = b

\* obj.f of a JavaScript object: undefined when the property is absent.
Field(obj, f) == IF f \in DOMAIN obj THEN obj[f] ELSE Undefined

RECURSIVE TrimStart(_)
TrimStart(s) == IF s # <<>> /\ Head(s) = " " THEN TrimStart(Tail(s)) ELSE s

RECURSIVE TrimEnd(_)
TrimEnd(s) ==
  IF s # <<>> /\ s[Len(s)] = " " THEN TrimEnd(SubSeq(s, 1, Len(s) - 1)) ELSE s

\* String.prototype.trim on a text value; content?.trim() of undefined is undefined.
Trim(x) == IF x[1] = "text" THEN Text(TrimEnd(TrimStart(x[2]))) ELSE Undefined

\* JavaScript truthiness of a string-or-undefined value.
Truthy(x) == x[1] = "text" /\ x[2] # <<>>

Roles == {"user", "business", "admin"}

VARIABLES
  role,           \* Users collection: role of each user document
  tokens,         \* Users collection: tokens array of each user document
  conversations,  \* Conversation collection (set of documents)
  messages,       \* Message collection, in insertion (natural) order
  now,            \* wall clock read by new Date()
  send,           \* POST /send requests in flight, one slot per process
  invocations,    \* number of POST /send requests received so far
  emitted,        \* events handed to io.to(room).emit, in emission order
  resp,           \* the HTTP response each client process is holding
  conns,          \* socket.io connections
  inbox           \* events delivered to each connection

vars == <<role, tokens, conversations, messages, now, send, invocations,
          emitted, resp, conns, inbox>>

(***************************************************************************)
(* Identity: users, tokens, the REST auth middleware.                      *)
(***************************************************************************)
JwtSecret == "JWT_SECRET"

\* jwt.sign({id: this._id, ...}, JWT_SECRET): the payload is JSON, so the
\* ObjectId is carried as its hex string under the key "id".
SignToken(u, serial) ==
  [kind |-> "jwt", payload |-> [id |-> ToString(OID(u)), iat |-> serial],
   secret |-> JwtSecret]

\* A well-formed JWT signed with another secret, and an absent credential.
ForgedToken == [kind |-> "jwt", payload |-> [id |-> Hex(1), iat |-> 0],
                secret |-> "other"]
NoToken == [kind |-> "none"]

IssuedTokens == UNION {tokens[u] : u \in Users}
TokenInputs == IssuedTokens \cup {ForgedToken, NoToken}

\* jwt.verify: succeeds only for a token signed with the server's secret.
JwtVerify(t) == t.kind = "jwt" /\ t.secret = JwtSecret

UserDoc(u) == [kind |-> "user", _id |-> OID(u), role |-> role[u]]

\* User.findById(id): mongoose turns findById(undefined) into
\* findOne({_id: null}), which matches no document.
UserFindById(id) ==
  IF ~IsValidObjectId(id) THEN Null
  ELSE IF \E u \in Users : OID(u) = CastObjectId(id)
       THEN UserDoc(CHOOSE u \in Users : OID(u) = CastObjectId(id))
       ELSE Null

\* The auth middleware: Null stands for the 401 response.
auth(t) ==
  IF t.kind = "none" THEN Null
  ELSE IF ~JwtVerify(t) THEN Null
  ELSE LET id == Field(t.payload, "id")
           owners == {u \in Users : /\ IsValidObjectId(id)
                                    /\ OID(u) = CastObjectId(id)
                                    /\ t \in tokens[u]}
       IN IF owners = {} THEN Null
          ELSE LET u == CHOOSE u \in owners : TRUE
               IN [kind |-> "user", _id |-> ToString(OID(u)), role |-> role[u]]

\* The user a request record req.user stands for (0 when unauthenticated).
UserOf(reqUser) == IF reqUser.kind = "user" THEN reqUser._id[2] ELSE 0

(***************************************************************************)
(* Conversation and Message documents.                                     *)
(***************************************************************************)
\* Fields the Conversation schema fills in on insert.
ConversationSchemaDefaults(t) == [lastActive |-> t]

\* Fields the Message schema fills in on save.
MessageSchemaDefaults(t) == [read |-> FALSE, createdAt |-> t]

\* The filter as it would be if it compared the stored array with
\* [a, b] in that order.
MatchesPairOrdered(c, a, b) ==
  c.participants = <<CastObjectId(a), CastObjectId(b)>>

\* The filter as it would be if it asked only for the sender among the
\* participants.
MatchesSender(c, a, b) ==
  /\ Len(c.participants) = 2
  /\ \E i \in 1..2 : BsonEq(c.participants[i], CastObjectId(a))

\* { participants: { $all: [a, b], $size: 2 } } after the cast to ObjectId.
MatchesPair(c, a, b) ==
  /\ Len(c.participants) = 2
  /\ \E i \in 1..2 : BsonEq(c.participants[i], CastObjectId(a))
  /\ \E i \in 1..2 : BsonEq(c.participants[i], CastObjectId(b))

\* The documents the filter of findOneAndUpdate selects.
FindConversation(a, b) == {c \in conversations : MatchesPair(c, a, b)}

\* The document an upsert inserts: $setOnInsert plus the schema defaults.
NewConversation(a, b) ==
  [_id |-> OID(ConvBase + Cardinality(conversations) + 1),
   participants |-> <<CastObjectId(a), CastObjectId(b)>>,
   lastActive |-> ConversationSchemaDefaults(now).lastActive]

\* new Message({conversation, sender, receiver, content: content.trim()}).
\* inv is not a field of the document: it records which send made it.
NewMessage(s) ==
  [_id |-> OID(MsgBase + Len(messages) + 1),
   conversation |-> s.conv,
   sender |-> CastObjectId(s.sender),
   receiver |-> CastObjectId(s.receiver),
   content |-> Trim(s.content),
   read |-> MessageSchemaDefaults(now).read,
   createdAt |-> MessageSchemaDefaults(now).createdAt,
   inv |-> s.inv]

(***************************************************************************)
(* POST /send.                                                             *)
(***************************************************************************)
\* The handler's locals.  inv and req are not state of the program: they
\* record which request the handler is serving.
NoRequest == [token |-> NoToken, body |-> [none |-> Undefined]]
IdleSend == [pc |-> "idle", sender |-> Undefined, receiver |-> Undefined,
             content |-> Undefined, conv |-> Undefined, msg |-> Null,
             la |-> 0, inv |-> 0, req |-> NoRequest]

ReceiverInputs ==
  {Hex(u) : u \in Users} \cup {Hex(GhostId), Text(<<"x">>)}
ContentInputs == {Text(<<>>), Text(<<" ">>), Text(<<" ", "a", " ">>)}
SendBodies ==
  [receiverId : ReceiverInputs, content : ContentInputs]
    \cup {[receiverId |-> Hex(1)], [content |-> Text(<<"a">>)]}

\* The gate as it would be if it stopped a business only from messaging
\* another business (an administrator let through).
SendGateBusinessOnly(user, body) ==
  LET receiverId == Field(body, "receiverId")
      content == Field(body, "content")
  IN IF ~IsValidObjectId(receiverId) THEN 400
     ELSE IF ~Truthy(Trim(content)) THEN 400
     ELSE LET receiver == UserFindById(receiverId)
          IN IF receiver.kind = "null" \/ OidEquals(receiver._id, user._id)
             THEN 404
             ELSE IF user.role = "business" /\ receiver.role = "business"
             THEN 403
             ELSE 0

\* The checks as they would be without the comparison of the receiver
\* with the sender.
SendGateNoSelfCheck(user, body) ==
  LET receiverId == Field(body, "receiverId")
      content == Field(body, "content")
  IN IF ~IsValidObjectId(receiverId) THEN 400
     ELSE IF ~Truthy(Trim(content)) THEN 400
     ELSE LET receiver == UserFindById(receiverId)
          IN IF receiver.kind = "null"
             THEN 404
             ELSE IF user.role = "business" /\ receiver.role # "user"
             THEN 403
             ELSE 0

\* The checks of the handler before it touches the conversation store:
\* the status of the early return, or 0 when the handler goes on.
SendGate(user, body) ==
  LET receiverId == Field(body, "receiverId")
      content == Field(body, "content")
  IN IF ~IsValidObjectId(receiverId) THEN 400
     ELSE IF ~Truthy(Trim(content)) THEN 400
     ELSE LET receiver == UserFindById(receiverId)
          IN IF receiver.kind = "null" \/ OidEquals(receiver._id, user._id)
             THEN 404
             ELSE IF user.role = "business" /\ receiver.role # "user"
             THEN 403
             ELSE 0

\* A response as the client sees it.  req is not part of it: it records
\* the POST /send request the response answers.
Response(op, user, status, body) ==
  [op |-> op, caller |-> UserOf(user), status |-> status, body |-> body,
   req |-> NoRequest]

\* res.status(status).json(body) to the client process p.
Respond(p, op, user, status, body) ==
  resp' = [resp EXCEPT ![p] = Response(op, user, status, body)]

\* res.status(status).json(body) of POST /send, answering request req.
RespondSend(p, user, status, body, req) ==
  resp' = [resp EXCEPT ![p] =
             [Response("send", user, status, body) EXCEPT !.req = req]]

IdleResponse == [op |-> "none", caller |-> 0, status |-> 0,
                 body |-> [error |-> "none"], req |-> NoRequest]

\* A client process makes one request at a time and reads the response
\* before it makes the next.
Ready(p) == send[p].pc = "idle" /\ resp[p] = IdleResponse

\* auth, input validation, receiver lookup and the business gate.
StartSend(p, t, body) ==
  /\ Ready(p)
  /\ LET user == auth(t)
     IN IF user.kind = "null"
        THEN /\ RespondSend(p, user, 401, [error |-> "auth"],
                            [token |-> t, body |-> body])
             /\ UNCHANGED <<send, invocations>>
        ELSE LET status == SendGate(user, body)
             IN IF status # 0
                THEN /\ RespondSend(p, user, status,
                                    [error |-> "rejected"],
                                    [token |-> t, body |-> body])
                     /\ UNCHANGED <<send, invocations>>
                ELSE /\ invocations < MaxSends
                     /\ invocations' = invocations + 1
                     /\ send' = [send EXCEPT ![p] =
                          [IdleSend EXCEPT !.pc = "upsertFind",
                                           !.sender = user._id,
                                           !.receiver = body.receiverId,
                                           !.content = body.content,
                                           !.inv = invocations + 1,
                                           !.req = [token |-> t,
                                                    body |-> body]]]
                     /\ UNCHANGED resp
  /\ UNCHANGED <<role, tokens, conversations, messages, now, emitted,
                 conns, inbox>>

\* Conversation.findOneAndUpdate(..., {upsert: true}): the query phase.
SendFind(p) ==
  /\ send[p].pc = "upsertFind"
  /\ LET found == FindConversation(send[p].sender, send[p].receiver)
     IN IF found = {}
        THEN send' = [send EXCEPT ![p].pc = "upsertInsert"]
        ELSE \E c \in found :
               send' = [send EXCEPT ![p].pc = "saveMessage", ![p].conv = c._id]
  /\ UNCHANGED <<role, tokens, conversations, messages, now, invocations,
                 emitted, resp, conns, inbox>>

\* Conversation.findOneAndUpdate(..., {upsert: true}): the insert phase,
\* taken when the query phase matched nothing.
SendInsert(p) ==
  /\ send[p].pc = "upsertInsert"
  /\ LET c == NewConversation(send[p].sender, send[p].receiver)
     IN /\ conversations' = conversations \cup {c}
        /\ send' = [send EXCEPT ![p].pc = "saveMessage", ![p].conv = c._id]
  /\ UNCHANGED <<role, tokens, messages, now, invocations, emitted, resp,
                 conns, inbox>>

\* The step as it would be if the handler went on without the message
\* having been written.
SendSaveMessageUnsaved(p) ==
  /\ send[p].pc = "saveMessage"
  /\ send' = [send EXCEPT ![p].pc = "touch", ![p].msg = NewMessage(send[p])]
  /\ UNCHANGED <<role, tokens, conversations, messages, now, invocations,
                 emitted, resp, conns, inbox>>

\* await message.save()
SendSaveMessage(p) ==
  /\ send[p].pc = "saveMessage"
  /\ LET m == NewMessage(send[p])
     IN /\ messages' = Append(messages, m)
        /\ send' = [send EXCEPT ![p].pc = "touch", ![p].msg = m]
  /\ UNCHANGED <<role, tokens, conversations, now, invocations, emitted,
                 resp, conns, inbox>>

\* conversation.lastActive = new Date()
SendTouch(p) ==
  /\ send[p].pc = "touch"
  /\ send' = [send EXCEPT ![p].pc = "saveConversation", ![p].la = now]
  /\ UNCHANGED <<role, tokens, conversations, messages, now, invocations,
                 emitted, resp, conns, inbox>>

\* await conversation.save(): writes the handler's copy of lastActive.
SendSaveConversation(p) ==
  /\ send[p].pc = "saveConversation"
  /\ conversations' =
       {IF c._id = send[p].conv THEN [c EXCEPT !.lastActive = send[p].la]
        ELSE c : c \in conversations}
  /\ send' = [send EXCEPT ![p].pc = "respond"]
  /\ UNCHANGED <<role, tokens, messages, now, invocations, emitted, resp,
                 conns, inbox>>

\* io.to(room).emit(type, payload) on the io of the entry point: the event
\* is logged and handed to every socket of that io that is in the room.
Emit(room, type, payload) ==
  /\ emitted' = Append(emitted, [room |-> room, type |-> type,
                                 payload |-> payload])
  /\ inbox' = [k \in DOMAIN inbox |->
                 IF room \in conns[k].rooms /\ conns[k].gateway = "index"
                 THEN inbox[k] \cup {Len(emitted) + 1} ELSE inbox[k]]

\* Message.populate, io.to(receiverId.toString()).emit('newMessage'), 201.
SendRespond(p) ==
  /\ send[p].pc = "respond"
  /\ Emit(ToString(send[p].receiver), "newMessage",
          [conversationId |-> send[p].conv, message |-> send[p].msg])
  /\ RespondSend(p, [kind |-> "user", _id |-> send[p].sender],
                 201, [message |-> send[p].msg], send[p].req)
  /\ send' = [send EXCEPT ![p] = IdleSend]
  /\ UNCHANGED <<role, tokens, conversations, messages, now, invocations,
                 conns>>

\* An awaited store operation of the handler rejects (findOneAndUpdate,
\* message.save, conversation.save or Message.populate): the operation has
\* no effect, the catch block answers 500, and what the earlier steps wrote
\* stays written.
SendFail(p) ==
  /\ send[p].pc \in {"upsertFind", "upsertInsert", "saveMessage",
                     "saveConversation", "respond"}
  /\ RespondSend(p, [kind |-> "user", _id |-> send[p].sender], 500,
                 [error |-> "failed"], send[p].req)
  /\ send' = [send EXCEPT ![p] = IdleSend]
  /\ UNCHANGED <<role, tokens, conversations, messages, now, invocations,
                 emitted, conns, inbox>>

\* The client process reads the response it was sent.
Ack(p) ==
  /\ resp[p] # IdleResponse
  /\ resp' = [resp EXCEPT ![p] = IdleResponse]
  /\ UNCHANGED <<role, tokens, conversations, messages, now, send,
                 invocations, emitted, conns, inbox>>

\* Time passes.
Tick ==
  /\ now < MaxClock
  /\ now' = now + 1
  /\ UNCHANGED <<role, tokens, conversations, messages, send, invocations,
                 emitted, resp, conns, inbox>>


(***************************************************************************)
(* GET / : the caller's conversations with unread counts.                  *)
(***************************************************************************)
\* All orderings of a finite set.
Perms(S) ==
  {f \in [1..Cardinality(S) -> S] :
     \A i, j \in 1..Cardinality(S) : i # j => f[i] # f[j]}

\* $match: { participants: req.user._id } of an aggregate pipeline: the
\* value is compared as it is, without a cast.
AggregateMatch(userId) ==
  {c \in conversations :
     \E i \in 1..Len(c.participants) : BsonEq(c.participants[i], userId)}

\* The $lookup sub-pipeline with $count, then $addFields with $ifNull.
UnreadCount(c, userId) ==
  Cardinality({i \in 1..Len(messages) :
                 /\ BsonEq(messages[i].conversation, c._id)
                 /\ BsonEq(messages[i].receiver, userId)
                 /\ messages[i].read = FALSE})

ConversationSummary(c, userId) ==
  [_id |-> c._id, participants |-> c.participants,
   lastActive |-> c.lastActive, unreadCount |-> UnreadCount(c, userId)]

\* The results of the pipeline: $sort: { lastActive: -1 } leaves the order
\* of documents with equal lastActive open.
AggregateConversations(userId) ==
  LET docs == {ConversationSummary(c, userId) : c \in AggregateMatch(userId)}
  IN {s \in Perms(docs) :
        \A i, j \in 1..Len(s) : i < j => s[i].lastActive >= s[j].lastActive}

ListConversations(p, t) ==
  /\ Ready(p)
  /\ LET user == auth(t)
     IN IF user.kind = "null"
        THEN Respond(p, "listConversations", user, 401,
                              [error |-> "auth"])
        ELSE \E body \in AggregateConversations(user._id) :
               Respond(p, "listConversations", user, 200,
                                [conversations |-> body])
  /\ UNCHANGED <<role, tokens, conversations, messages, now, send,
                 invocations, emitted, conns, inbox>>

(***************************************************************************)
(* The messageAuthorization middleware.                                    *)
(***************************************************************************)
\* Lexicographic rank of the role strings, as Array.prototype.sort orders them.
RoleRank(r) == CASE r = "admin" -> 1 [] r = "business" -> 2 [] r = "user" -> 3

\* The comparison as it would be without the calls of sort.
SortRolesUnsorted(rs) == rs

\* Array.prototype.sort on an array of role strings.
SortRoles(rs) ==
  IF Len(rs) = 2 /\ RoleRank(rs[1]) > RoleRank(rs[2]) THEN <<rs[2], rs[1]>>
  ELSE rs

validInteractionTypes ==
  <<(<<"user", "user">>), (<<"user", "business">>),
    (<<"business", "business">>)>>

\* roles.sort().toString() is compared with each types.sort().toString().
InteractionAllowed(roles) ==
  \E i \in 1..Len(validInteractionTypes) :
    SortRoles(validInteractionTypes[i]) = SortRoles(roles)

\* The interaction type validation applied to the participants' roles: the
\* status it answers with, or 0 when it goes on to next().
InteractionGate(roles) == IF ~InteractionAllowed(roles) THEN 403 ELSE 0

\* Message.findById(id).populate({path: 'conversation', populate: participants}):
\* a Message document whose conversation field holds the conversation with
\* its participants replaced by {_id, role}; findById(undefined) finds none.
MessageFindByIdPopulated(id) ==
  IF ~IsValidObjectId(id) THEN Null
  ELSE LET hits == {i \in 1..Len(messages) :
                      BsonEq(messages[i]._id, CastObjectId(id))}
       IN IF hits = {} THEN Null
          ELSE LET m == messages[CHOOSE i \in hits : TRUE]
                   cs == {c \in conversations : c._id = m.conversation}
               IN [kind |-> "message", _id |-> m._id,
                   conversation |->
                     {[c EXCEPT !.participants =
                         [i \in 1..Len(c.participants) |->
                            [_id |-> c.participants[i],
                             role |-> role[c.participants[i][2]]]]] :
                        c \in cs}]

\* The status the middleware answers with, or 0 when it calls next().
\* It looks the document up under req.params.id and reads participants
\* from the document it found.
messageAuthorization(user, params) ==
  LET conversation == MessageFindByIdPopulated(Field(params, "id"))
  IN IF conversation.kind = "null" THEN 404
     ELSE IF "participants" \notin DOMAIN conversation THEN 500
     ELSE LET ps == conversation.participants
          IN IF ~\E i \in 1..Len(ps) : OidEquals(ps[i]._id, user._id)
             THEN 403
             ELSE InteractionGate([i \in 1..Len(ps) |-> ps[i].role])

\* The interaction type validation run for a caller a on a document whose
\* populated participants are the users a and b.
CheckInteraction(p, a, b) ==
  /\ Ready(p)
  /\ Respond(p, "interactionGate", [kind |-> "user", _id |-> Hex(a)],
             InteractionGate(<<role[a], role[b]>>),
             [roles |-> <<role[a], role[b]>>])
  /\ UNCHANGED <<role, tokens, conversations, messages, now, send,
                 invocations, emitted, conns, inbox>>

\* What the middleware leaves in req.conversation: it never assigns it.
ReqConversation(user, params) == Undefined

ConversationIdInputs ==
  {Hex(ConvBase + k) : k \in 1..MaxSends} \cup {Hex(GhostId), Text(<<"x">>)}
RouteParams == [conversationId : ConversationIdInputs]

(***************************************************************************)
(* GET /:conversationId/messages                                           *)
(***************************************************************************)
\* Message.find({conversation}).sort({createdAt: 1}): documents with equal
\* createdAt come in any order.
FindMessages(conversationId) ==
  LET hits == {i \in 1..Len(messages) :
                 BsonEq(messages[i].conversation, CastObjectId(conversationId))}
  IN {[k \in 1..Cardinality(hits) |-> messages[f[k]]] : f \in
        {g \in Perms(hits) :
           \A i, j \in 1..Cardinality(hits) :
             i < j => messages[g[i]].createdAt <= messages[g[j]].createdAt}}

GetMessages(p, t, params) ==
  /\ Ready(p)
  /\ LET user == auth(t)
     IN IF user.kind = "null"
        THEN Respond(p, "getMessages", user, 401, [error |-> "auth"])
        ELSE LET status == messageAuthorization(user, params)
             IN IF status # 0
                THEN Respond(p, "getMessages", user, status,
                                      [error |-> "authorization"])
                ELSE IF ~IsValidObjectId(params.conversationId)
                THEN Respond(p, "getMessages", user, 500,
                                      [error |-> "cast"])
                ELSE \E body \in FindMessages(params.conversationId) :
                       Respond(p, "getMessages", user, 200,
                                        [messages |-> body])
  /\ UNCHANGED <<role, tokens, conversations, messages, now, send,
                 invocations, emitted, conns, inbox>>

\* The participants of a conversation document, and the stored conversation
\* an id names.
ParticipantSet(c) == {c.participants[i] : i \in 1..Len(c.participants)}
ConversationWithId(x) ==
  {c \in conversations : IsValidObjectId(x) /\ c._id = CastObjectId(x)}

(***************************************************************************)
(* PATCH /:conversationId/read                                             *)
(***************************************************************************)
\* The filter of Message.updateMany after the cast.
UnreadFor(conversationId, userId) ==
  {i \in 1..Len(messages) :
     /\ BsonEq(messages[i].conversation, CastObjectId(conversationId))
     /\ BsonEq(messages[i].receiver, CastObjectId(userId))
     /\ messages[i].read = FALSE}

\* The route as it would be without the authorization middleware and
\* without the receiver in the filter of updateMany.
MarkReadUngated(p, t, params) ==
  /\ Ready(p)
  /\ LET user == auth(t)
         hit == {i \in 1..Len(messages) :
                   /\ BsonEq(messages[i].conversation,
                             CastObjectId(params.conversationId))
                   /\ messages[i].read = FALSE}
     IN IF user.kind = "null"
        THEN /\ Respond(p, "markRead", user, 401, [error |-> "auth"])
             /\ UNCHANGED messages
        ELSE /\ messages' = [i \in 1..Len(messages) |->
                               IF i \in hit
                               THEN [messages[i] EXCEPT !.read = TRUE]
                               ELSE messages[i]]
             /\ Respond(p, "markRead", user, 200,
                        [modifiedCount |-> Cardinality(hit)])
  /\ UNCHANGED <<role, tokens, conversations, now, send, invocations,
                 emitted, conns, inbox>>

\* The route as it would be if it reached updateMany for any authenticated
\* caller and then notified the other participant of the conversation
\* named in the path, whatever the modified count.
MarkReadNotifying(p, t, params) ==
  /\ Ready(p)
  /\ LET user == auth(t)
     IN IF user.kind = "null" \/ ~IsValidObjectId(params.conversationId)
        THEN /\ Respond(p, "markRead", user, 401, [error |-> "auth"])
             /\ UNCHANGED <<messages, emitted, inbox>>
        ELSE LET hit == UnreadFor(params.conversationId, user._id)
                 others == {x \in UNION {ParticipantSet(c) :
                                   c \in ConversationWithId(params.conversationId)} :
                              ~OidEquals(x, user._id)}
             IN /\ messages' = [i \in 1..Len(messages) |->
                                  IF i \in hit
                                  THEN [messages[i] EXCEPT !.read = TRUE]
                                  ELSE messages[i]]
                /\ IF others # {}
                   THEN Emit(ToString(CHOOSE x \in others : TRUE),
                             "messagesRead",
                             [conversationId |-> params.conversationId,
                              readerId |-> user._id])
                   ELSE UNCHANGED <<emitted, inbox>>
                /\ Respond(p, "markRead", user, 200,
                           [modifiedCount |-> Cardinality(hit)])
  /\ UNCHANGED <<role, tokens, conversations, now, send, invocations, conns>>

MarkRead(p, t, params) ==
  /\ Ready(p)
  /\ LET user == auth(t)
       IN IF user.kind = "null"
          THEN /\ Respond(p, "markRead", user, 401, [error |-> "auth"])
               /\ UNCHANGED <<role, tokens, conversations, messages, now, send,
                              invocations, emitted, conns, inbox>>
          ELSE LET status == messageAuthorization(user, params)
               IN IF status # 0
                  THEN /\ Respond(p, "markRead", user, status,
                                           [error |-> "authorization"])
                       /\ UNCHANGED <<role, tokens, conversations, messages, now,
                                      send, invocations, emitted, conns, inbox>>
                  ELSE IF ~IsValidObjectId(params.conversationId)
                  THEN /\ Respond(p, "markRead", user, 500,
                                           [error |-> "cast"])
                       /\ UNCHANGED <<role, tokens, conversations, messages, now,
                                      send, invocations, emitted, conns, inbox>>
                  ELSE LET hit == UnreadFor(params.conversationId, user._id)
                           reqConversation == ReqConversation(user, params)
                       IN /\ messages' = [i \in 1..Len(messages) |->
                                            IF i \in hit
                                            THEN [messages[i] EXCEPT !.read = TRUE]
                                            ELSE messages[i]]
                          /\ IF reqConversation # Undefined
                             THEN LET others ==
                                        {i \in 1..Len(reqConversation.participants) :
                                           ~OidEquals(reqConversation.participants[i],
                                                      user._id)}
                                  IN IF others # {}
                                     THEN Emit(ToString(reqConversation.participants[
                                                 CHOOSE i \in others :
                                                   \A j \in others : i <= j]),
                                               "messagesRead",
                                               [conversationId |->
                                                  params.conversationId,
                                                readerId |-> user._id])
                                     ELSE UNCHANGED <<emitted, inbox>>
                             ELSE UNCHANGED <<emitted, inbox>>
                          /\ Respond(p, "markRead", user, 200,
                                              [modifiedCount |-> Cardinality(hit)])
                          /\ UNCHANGED <<role, tokens, conversations, now, send,
                                         invocations, conns>>

(***************************************************************************)
(* POST /login and the socket.io gateway of the server entry point.        *)
(***************************************************************************)
\* gateway names the Server the socket belongs to ("index" for the io of
\* the entry point, "websocket" for the io of setupWebSocket); session is
\* what connectionStateRecovery keeps of a dropped connection; error tells
\* whether the server has sent the client an 'error' event on this socket;
\* ui is the state of the MessageSender component that uses the socket.
NoSender == [content |-> Text(<<>>), error |-> "", loading |-> FALSE,
             outbox |-> FALSE]
NoConnection == [state |-> "closed", token |-> NoToken, user |-> Null,
                 rooms |-> {}, since |-> 0, gateway |-> "none",
                 session |-> Null, error |-> FALSE, ui |-> NoSender]

\* userSchema.methods.generateAuthToken: sign, append to tokens, save.
generateAuthToken(u) ==
  LET token == SignToken(u, Cardinality(tokens[u]) + 1)
  IN tokens' = [tokens EXCEPT ![u] = tokens[u] \cup {token}]

\* POST /login with the right credentials of user u.
Login(u) ==
  /\ Cardinality(tokens[u]) < MaxTokens
  /\ generateAuthToken(u)
  /\ UNCHANGED <<role, conversations, messages, now, send, invocations,
                 emitted, resp, conns, inbox>>

\* What the auth middleware leaves in req.token: it assigns req.user only.
ReqToken(t) == Undefined

\* POST /logout behind the auth middleware.  A request without req.token is
\* answered 400 before revokeToken is called; req.user is the plain object
\* the middleware built, which has no revokeToken method, so a call would
\* throw and handleAuthError would answer 500.
Logout(p, t) ==
  /\ Ready(p)
  /\ LET user == auth(t)
     IN IF user.kind = "null"
        THEN Respond(p, "logout", user, 401, [error |-> "auth"])
        ELSE IF ReqToken(t) = Undefined
        THEN Respond(p, "logout", user, 400,
                     [error |-> "Invalid logout request"])
        ELSE Respond(p, "logout", user, 500,
                     [error |-> "Internal server error"])
  /\ UNCHANGED <<role, tokens, conversations, messages, now, send,
                 invocations, emitted, conns, inbox>>

\* The client of useSocket: io(url, {auth: {token}}).
Connect(k, t) ==
  /\ conns[k].state = "closed"
  /\ conns' = [conns EXCEPT ![k] =
                  [NoConnection EXCEPT !.state = "connecting",
                                       !.token = t,
                                       !.gateway = "index",
                                       !.session = conns[k].session]]
  /\ inbox' = [inbox EXCEPT ![k] = {}]
  /\ UNCHANGED <<role, tokens, conversations, messages, now, send,
                 invocations, emitted, resp>>

\* The io.use middleware: the user it puts in socket.data.user, or Null
\* when it calls next(new Error('Authentication failed')).  It reads the
\* identity from decoded._id.
SocketAuth(t) ==
  IF t.kind = "none" THEN Null
  ELSE IF ~JwtVerify(t) THEN Null
  ELSE LET user == UserFindById(Field(t.payload, "_id"))
       IN IF user.kind = "null" THEN Null
          ELSE [kind |-> "user", _id |-> ToString(user._id), role |-> user.role]

\* The handshake of a connection.  A client whose dropped connection left
\* a session is recovered (connectionStateRecovery with skipMiddlewares):
\* socket.data and the rooms are restored and the middleware is not run.
\* Otherwise the io.use middleware runs.  A connection let through reaches
\* the io.on('connection') handler, which joins the room named by the
\* user's id.  since notes how many events had been emitted when the
\* handshake was done.
Handshake(k) ==
  /\ conns[k].state = "connecting"
  /\ conns[k].gateway = "index"
  /\ LET session == conns[k].session
         user == IF session.kind = "null" THEN SocketAuth(conns[k].token)
                 ELSE session.user
         rooms == IF session.kind = "null" THEN {} ELSE session.rooms
     IN IF user.kind = "null"
        THEN conns' = [conns EXCEPT ![k].state = "rejected",
                                    ![k].since = Len(emitted)]
        ELSE conns' = [conns EXCEPT ![k].state = "connected",
                                    ![k].user = user,
                                    ![k].rooms = rooms \cup {user._id},
                                    ![k].since = Len(emitted),
                                    ![k].session = Null]
  /\ UNCHANGED <<role, tokens, conversations, messages, now, send,
                 invocations, emitted, resp, inbox>>

\* The client closes its socket (the cleanup of useSocket): the
\* connection and its rooms are gone, and no session is kept.
Disconnect(k) ==
  /\ conns[k].state # "closed"
  /\ conns' = [conns EXCEPT ![k] = NoConnection]
  /\ UNCHANGED <<role, tokens, conversations, messages, now, send,
                 invocations, emitted, resp, inbox>>

\* The transport drops.  For a connected socket of the entry point's io,
\* connectionStateRecovery keeps socket.data and the rooms as a session.
NetworkDrop(k) ==
  /\ conns[k].state # "closed"
  /\ conns' = [conns EXCEPT ![k] =
       [NoConnection EXCEPT !.session =
          IF conns[k].gateway = "index" /\ conns[k].state = "connected"
          THEN [kind |-> "session", user |-> conns[k].user,
                rooms |-> conns[k].rooms]
          ELSE Null,
                            !.ui = conns[k].ui]]
  /\ UNCHANGED <<role, tokens, conversations, messages, now, send,
                 invocations, emitted, resp, inbox>>

\* The client emits joinConversation on a socket of the entry point's io.
\* The handler exists only on a connected socket; it answers an invalid id
\* with an error event to that socket and joins the room otherwise.
JoinConversation(k, conversationId) ==
  /\ conns[k].state # "closed"
  /\ conns[k].gateway = "index"
  /\ IF conns[k].state # "connected"
     THEN UNCHANGED conns
     ELSE IF ~IsValidObjectId(conversationId)
     THEN conns' = [conns EXCEPT ![k].error = TRUE]
     ELSE conns' = [conns EXCEPT ![k].rooms = @ \cup {conversationId}]
  /\ UNCHANGED <<role, tokens, conversations, messages, now, send,
                 invocations, emitted, resp, inbox>>

(***************************************************************************)
(* The socket.io gateway of setupWebSocket.                                *)
(***************************************************************************)
\* io.on('connection') of setupWebSocket: no middleware is registered, so
\* every connection is established, whatever token it presents.
WsConnect(k, t) ==
  /\ conns[k].state = "closed"
  /\ conns' = [conns EXCEPT ![k] =
                  [NoConnection EXCEPT !.state = "connected",
                                       !.token = t,
                                       !.gateway = "websocket",
                                       !.since = Len(emitted)]]
  /\ inbox' = [inbox EXCEPT ![k] = {}]
  /\ UNCHANGED <<role, tokens, conversations, messages, now, send,
                 invocations, emitted, resp>>

\* socket.on('joinConversation') of setupWebSocket: socket.join, unchecked.
WsJoinConversation(k, conversationId) ==
  /\ conns[k].state = "connected"
  /\ conns[k].gateway = "websocket"
  /\ conns' = [conns EXCEPT ![k].rooms = @ \cup {conversationId}]
  /\ UNCHANGED <<role, tokens, conversations, messages, now, send,
                 invocations, emitted, resp, inbox>>

(***************************************************************************)
(* The MessageSender component of the client.                              *)
(***************************************************************************)
\* The events a connected socket has a listener for, on each server.
Listeners(gateway) ==
  IF gateway = "index" THEN {"joinConversation", "disconnect", "error"}
  ELSE {"joinConversation", "disconnect"}

\* handleSend with the text typed into the field: the two checks, then
\* setLoading(true), setError('') and socket.emit('sendMessage', ..., ack).
\* The field and the button are disabled while loading.
HandleSend(k, content) ==
  /\ conns[k].state # "closed"
  /\ ~conns[k].ui.loading
  /\ conns' = [conns EXCEPT ![k].ui =
       IF ~Truthy(Trim(content))
       THEN [@ EXCEPT !.content = content,
                      !.error = "Message cannot be empty"]
       ELSE IF conns[k].state # "connected"
       THEN [@ EXCEPT !.content = content,
                      !.error = "Connection lost. Please refresh the page."]
       ELSE [content |-> content, error |-> "", loading |-> TRUE,
             outbox |-> TRUE]]
  /\ UNCHANGED <<role, tokens, conversations, messages, now, send,
                 invocations, emitted, resp, inbox>>

\* The server receives the 'sendMessage' event of a connection.  Only a
\* listener can call the acknowledgement, on which the component does
\* setLoading(false) and clears the content or shows an error; an event
\* without a listener is dropped.
ReceiveSendMessage(k) ==
  /\ conns[k].state = "connected"
  /\ conns[k].ui.outbox
  /\ conns' = [conns EXCEPT ![k].ui =
       IF "sendMessage" \in Listeners(conns[k].gateway)
       THEN [@ EXCEPT !.outbox = FALSE, !.loading = FALSE,
                      !.content = Text(<<>>)]
       ELSE [@ EXCEPT !.outbox = FALSE]]
  /\ UNCHANGED <<role, tokens, conversations, messages, now, send,
                 invocations, emitted, resp, inbox>>

(***************************************************************************)
(* The server after start-up: registered users, each holding the token     *)
(* its registration answered with; empty collections; nothing in flight.   *)
(***************************************************************************)

Init ==
  /\ role \in [Users -> Roles]
  /\ tokens = [u \in Users |-> {SignToken(u, 1)}]
  /\ conversations = {}
  /\ messages = <<>>
  /\ now = 0
  /\ send = [p \in Procs |-> IdleSend]
  /\ invocations = 0
  /\ emitted = <<>>
  /\ resp = [p \in Procs |-> IdleResponse]
  /\ conns = [k \in Conns |-> NoConnection]
  /\ inbox = [k \in Conns |-> {}]

\* Requests a client of the REST interface makes.
ValidSendBodies == [receiverId : {Hex(u) : u \in Users}, content : {Text(<<"a">>)}]

\* The server handling one request at a time.
Next ==
  \/ \E t \in TokenInputs, body \in SendBodies : StartSend(1, t, body)
  \/ SendFind(1)
  \/ SendInsert(1)
  \/ SendSaveMessage(1)
  \/ SendTouch(1)
  \/ SendSaveConversation(1)
  \/ SendRespond(1)
  \/ \E t \in TokenInputs : ListConversations(1, t)
  \/ \E t \in TokenInputs, params \in RouteParams : GetMessages(1, t, params)
  \/ \E t \in TokenInputs, params \in RouteParams : MarkRead(1, t, params)
  \/ Ack(1)

Spec == Init /\ [][Next]_vars

\* Two POST /send requests handled concurrently: the steps of the two
\* handlers interleave at every await.
NextRace ==
  \/ \E p \in Procs, t \in IssuedTokens, body \in ValidSendBodies :
       StartSend(p, t, body)
  \/ \E p \in Procs : SendFind(p)
  \/ \E p \in Procs : SendInsert(p)
  \/ \E p \in Procs : SendSaveMessage(p)
  \/ \E p \in Procs : SendTouch(p)
  \/ \E p \in Procs : SendSaveConversation(p)
  \/ \E p \in Procs : SendRespond(p)
  \/ \E p \in Procs : Ack(p)
  \/ Tick

\* The races of two handlers depend on the pair addressed, not on the
\* roles: one user of each role stands for the rest (the individual and
\* the business may message each other, the administrator anyone).
InitRace == Init /\ role = <<"user", "business", "admin">>

SpecRace == InitRace /\ [][NextRace]_vars

\* Logins, one client connection to the gateway, and sends handled one at
\* a time.
NextLive ==
  \/ \E u \in Users : Login(u)
  \/ \E t \in TokenInputs : Connect(1, t)
  \/ Handshake(1)
  \/ Disconnect(1)
  \/ \E t \in IssuedTokens, body \in ValidSendBodies : StartSend(1, t, body)
  \/ SendFind(1)
  \/ SendInsert(1)
  \/ SendSaveMessage(1)
  \/ SendTouch(1)
  \/ SendSaveConversation(1)
  \/ SendRespond(1)
  \/ Ack(1)

InitLive == Init /\ role = <<"user", "business", "admin">>

SpecLive == InitLive /\ [][NextLive]_vars

\* Sends handled one at a time, any awaited store operation of which may
\* reject.
NextFail ==
  \/ \E t \in IssuedTokens, body \in ValidSendBodies : StartSend(1, t, body)
  \/ SendFind(1)
  \/ SendInsert(1)
  \/ SendSaveMessage(1)
  \/ SendTouch(1)
  \/ SendSaveConversation(1)
  \/ SendRespond(1)
  \/ SendFail(1)
  \/ Ack(1)
  \/ Tick

InitFail == Init /\ role = <<"user", "business", "admin">>

SpecFail == InitFail /\ [][NextFail]_vars

\* The two gateways of the server code and their clients.
NextGateway ==
  \/ \E k \in Conns, t \in TokenInputs : Connect(k, t)
  \/ \E k \in Conns : Handshake(k)
  \/ \E k \in Conns : Disconnect(k)
  \/ \E k \in Conns : NetworkDrop(k)
  \/ \E k \in Conns, cid \in ConversationIdInputs : JoinConversation(k, cid)
  \/ \E k \in Conns, t \in TokenInputs : WsConnect(k, t)
  \/ \E k \in Conns, cid \in ConversationIdInputs :
       WsJoinConversation(k, cid)

InitGateway == Init /\ role = <<"user", "business", "admin">>

SpecGateway == InitGateway /\ [][NextGateway]_vars

\* Ids a client can name in joinConversation: conversation ids, and the
\* ids of users, which have the same form.
RoomInputs == ConversationIdInputs \cup {Hex(u) : u \in Users}

\* Two client connections to the gateway of the entry point, joining rooms
\* at will, while sends are handled one at a time.
NextConfidential ==
  \/ \E k \in Conns, t \in TokenInputs : Connect(k, t)
  \/ \E k \in Conns : Handshake(k)
  \/ \E k \in Conns : NetworkDrop(k)
  \/ \E k \in Conns, cid \in RoomInputs : JoinConversation(k, cid)
  \/ \E t \in IssuedTokens, body \in ValidSendBodies : StartSend(1, t, body)
  \/ SendFind(1)
  \/ SendInsert(1)
  \/ SendSaveMessage(1)
  \/ SendTouch(1)
  \/ SendSaveConversation(1)
  \/ SendRespond(1)
  \/ Ack(1)

InitConfidential == Init /\ role = <<"user", "business", "admin">>

SpecConfidential == InitConfidential /\ [][NextConfidential]_vars

\* Clients with a MessageSender on their socket, on either server.  The
\* event loops of client and server keep running: a step that can be
\* taken is taken.
NextSender ==
  \/ \E k \in Conns, t \in TokenInputs : Connect(k, t)
  \/ \E k \in Conns : Handshake(k)
  \/ \E k \in Conns, t \in TokenInputs : WsConnect(k, t)
  \/ \E k \in Conns, content \in ContentInputs : HandleSend(k, content)
  \/ \E k \in Conns : ReceiveSendMessage(k)

InitSender == Init /\ role = <<"user", "business", "admin">>

SpecSender ==
  /\ InitSender /\ [][NextSender]_vars
  /\ WF_vars(NextSender)
  /\ \A k \in Conns : WF_vars(Handshake(k)) /\ WF_vars(ReceiveSendMessage(k))

\* Logins, logouts and requests that present a token.
NextLogout ==
  \/ \E u \in Users : Login(u)
  \/ \E t \in TokenInputs : Logout(1, t)
  \/ \E t \in TokenInputs : ListConversations(1, t)
  \/ Ack(1)

SpecLogout == Init /\ [][NextLogout]_vars

\* The interaction type validation on every pair of users, under every
\* assignment of roles.
NextGate ==
  \/ \E a, b \in Users : a # b /\ CheckInteraction(1, a, b)
  \/ Ack(1)

SpecGate == Init /\ [][NextGate]_vars

(***************************************************************************)
(* Properties.                                                             *)
(***************************************************************************)
ConversationsOf(a, b) ==
  {c \in conversations : ParticipantSet(c) = {OID(a), OID(b)}}
MessagesBetween(a, b) ==
  {i \in 1..Len(messages) :
     {messages[i].sender, messages[i].receiver} = {OID(a), OID(b)}}
MessagesIn(cid) ==
  {i \in 1..Len(messages) : messages[i].conversation = cid}
Authenticated(t) == auth(t).kind = "user"
Caller(t) == OID(UserOf(auth(t)))

\* C1: once two users have exchanged messages, whether their sends ran one
\* after the other or interleaved, exactly one conversation holds the pair
\* and every message between them references it.
C1_PairUniqueness ==
  \A a, b \in Users :
    (a # b /\ MessagesBetween(a, b) # {}) =>
      /\ Cardinality(ConversationsOf(a, b)) = 1
      /\ \A i \in MessagesBetween(a, b) :
           \A c \in ConversationsOf(a, b) : messages[i].conversation = c._id

\* C2: GET /:conversationId/messages by a participant answers 200 with the
\* conversation's messages in the order their sends were invoked.
C2_MessageOrdering ==
  [][\A t \in TokenInputs, params \in RouteParams :
       (/\ GetMessages(1, t, params)
        /\ Authenticated(t)
        /\ \E c \in ConversationWithId(params.conversationId) :
             Caller(t) \in ParticipantSet(c))
       => /\ resp'[1].status = 200
          /\ LET body == resp'[1].body.messages
             IN /\ {body[i]._id : i \in 1..Len(body)} =
                     {messages[i]._id :
                        i \in MessagesIn(CastObjectId(params.conversationId))}
                /\ \A i, j \in 1..Len(body) : i < j => body[i].inv < body[j].inv
    ]_vars

\* A step in which the server takes up a POST /send request.
SendStep == Ready(1) /\ (resp'[1].op = "send" \/ send'[1].pc = "upsertFind")

\* The request taken up in such a step.
Request == IF send'[1].pc = "upsertFind" THEN send'[1].req ELSE resp'[1].req

\* The send request of a step is addressed to an existing user other than
\* the caller.
ToOtherUser(t, body) ==
  /\ Authenticated(t)
  /\ UserFindById(Field(body, "receiverId")).kind = "user"
  /\ ~OidEquals(UserFindById(Field(body, "receiverId"))._id, auth(t)._id)

ReceiverRole(body) == UserFindById(Field(body, "receiverId")).role
ValidContent(body) == Truthy(Trim(Field(body, "content")))

C4_BusinessToBusiness ==
  [][SendStep => LET t == Request.token
                     body == Request.body IN
       (/\ ToOtherUser(t, body)
        /\ ValidContent(body)
        /\ auth(t).role = "business" /\ ReceiverRole(body) = "business"
        /\ StartSend(1, t, body))
       => send'[1].pc = "upsertFind"
    ]_vars

\* No message from a business to a business is ever in the message store.
NoBusinessToBusinessMessage ==
  \A i \in 1..Len(messages) :
    ~(role[messages[i].sender[2]] = "business"
      /\ role[messages[i].receiver[2]] = "business")

\* C5: GET messages and PATCH read on an existing conversation by an
\* authenticated caller who is not one of its participants are answered 403
\* and change no message.
C5_ParticipantGate ==
  [][\A t \in TokenInputs, params \in RouteParams :
       (/\ GetMessages(1, t, params) \/ MarkRead(1, t, params)
        /\ Authenticated(t)
        /\ \E c \in ConversationWithId(params.conversationId) :
             Caller(t) \notin ParticipantSet(c))
       => /\ resp'[1].status = 403
          /\ messages' = messages
    ]_vars

\* C6: GET messages by a participant of an existing conversation with an
\* allowed role pair answers 200 with exactly the conversation's messages.
C6_ParticipantReadsMessages ==
  [][\A t \in TokenInputs, params \in RouteParams :
       (/\ GetMessages(1, t, params)
        /\ Authenticated(t)
        /\ \E c \in ConversationWithId(params.conversationId) :
             /\ Caller(t) \in ParticipantSet(c)
             /\ InteractionAllowed([i \in 1..Len(c.participants) |->
                                      role[c.participants[i][2]]]))
       => /\ resp'[1].status = 200
          /\ LET body == resp'[1].body.messages
             IN {body[i]._id : i \in 1..Len(body)} =
                  {messages[i]._id :
                     i \in MessagesIn(CastObjectId(params.conversationId))}
    ]_vars

\* The messages of conversation cid addressed to user x and not read.
Unread(cid, x) ==
  {i \in MessagesIn(cid) : messages[i].receiver = x /\ ~messages[i].read}

\* C7: GET / by X reports every conversation containing X, each with
\* unreadCount equal to the number of unread messages addressed to X in it.
C7_UnreadAccounting ==
  [][\A t \in TokenInputs :
       (ListConversations(1, t) /\ Authenticated(t))
       => /\ resp'[1].status = 200
          /\ \A c \in conversations :
               Caller(t) \in ParticipantSet(c) =>
                 \E k \in 1..Len(resp'[1].body.conversations) :
                   /\ resp'[1].body.conversations[k]._id = c._id
                   /\ resp'[1].body.conversations[k].unreadCount =
                        Cardinality(Unread(c._id, Caller(t)))
    ]_vars

\* C8: PATCH read by a participant X with N unread messages addressed to X
\* answers 200 with modifiedCount N and leaves none unread, so that the
\* next call answers 0.
C8_IdempotentRead ==
  [][\A t \in TokenInputs, params \in RouteParams :
       (/\ MarkRead(1, t, params)
        /\ Authenticated(t)
        /\ \E c \in ConversationWithId(params.conversationId) :
             Caller(t) \in ParticipantSet(c))
       => /\ resp'[1].status = 200
          /\ resp'[1].body.modifiedCount =
               Cardinality(Unread(CastObjectId(params.conversationId), Caller(t)))
          /\ \A i \in MessagesIn(CastObjectId(params.conversationId)) :
               messages'[i].receiver = Caller(t) => messages'[i].read
    ]_vars

\* The send request of a step has invalid input: a malformed or absent
\* receiverId, or content that is empty once trimmed.
InvalidInput(body) ==
  ~IsValidObjectId(Field(body, "receiverId")) \/ ~ValidContent(body)

\* The send request of a step names no existing user, or the caller.
InvalidRecipient(t, body) ==
  \/ UserFindById(Field(body, "receiverId")).kind = "null"
  \/ OidEquals(UserFindById(Field(body, "receiverId"))._id, auth(t)._id)

StoreUntouched ==
  /\ conversations' = conversations
  /\ messages' = messages
  /\ emitted' = emitted
  /\ send' = send

\* C10 as claimed: invalid input, an unknown receiver and the caller as
\* receiver are all answered 400, with nothing stored or emitted.
C10_InvalidArgument400 ==
  [][SendStep => LET t == Request.token
                     body == Request.body IN
       (/\ Authenticated(t)
        /\ InvalidInput(body) \/ InvalidRecipient(t, body)
        /\ StartSend(1, t, body))
       => /\ resp'[1].op = "send" /\ resp'[1].status = 400
          /\ StoreUntouched
    ]_vars

\* C10 amended: invalid input is answered 400; well-formed input whose
\* receiver is unknown or is the caller is answered 404; either way nothing
\* is stored or emitted.
C10_SendValidation ==
  [][SendStep => LET t == Request.token
                     body == Request.body IN
       (/\ Authenticated(t)
        /\ InvalidInput(body) \/ InvalidRecipient(t, body)
        /\ StartSend(1, t, body))
       => /\ resp'[1].op = "send"
          /\ resp'[1].status = IF InvalidInput(body) THEN 400 ELSE 404
          /\ StoreUntouched
    ]_vars

\* C10 witness: a send has been answered 404 while the store holds a
\* conversation and a message.
C10_Witness ==
  /\ resp[1].op = "send" /\ resp[1].status = 404
  /\ conversations # {} /\ messages # <<>>


\* C9: a connection opened with a token that generateAuthToken issued to
\* user B, whose handshake is done and which the client has not closed,
\* has received every newMessage emitted since for a message addressed to
\* B, and the message it carries is unread.
C9_LiveDelivery ==
  \A k \in Conns, i \in 1..Len(emitted) :
    (/\ conns[k].state \in {"connected", "rejected"}
     /\ i > conns[k].since
     /\ emitted[i].type = "newMessage"
     /\ conns[k].token \in tokens[emitted[i].payload.message.receiver[2]])
    => /\ i \in inbox[k]
       /\ emitted[i].payload.message.read = FALSE


\* C11: once a send has finished, however it finished, no conversation is
\* without a message.
C11_NoPartialSend ==
  send[1].pc = "idle" =>
    \A c \in conversations : MessagesIn(c._id) # {}

\* C18: a send answered with an error status has left no message of its
\* invocation in the message store.
C18_FailedSendPersistsNothing ==
  [][(send[1].pc # "idle" /\ send'[1].pc = "idle" /\ resp'[1].status >= 400)
       => \A i \in 1..Len(messages') : messages'[i].inv # send[1].inv
    ]_vars


\* C12: a persisted message is never removed and never changes, except
\* that its read flag may go from false to true in a step that answers a
\* mark-read request of the message's receiver.
C12_ReadFlagMonotonic ==
  [][/\ Len(messages') >= Len(messages)
     /\ \A i \in 1..Len(messages) :
          \/ messages'[i] = messages[i]
          \/ /\ messages[i].read = FALSE
             /\ messages'[i] = [messages[i] EXCEPT !.read = TRUE]
             /\ resp'[1].op = "markRead"
             /\ OID(resp'[1].caller) = messages[i].receiver
    ]_vars

\* C12 witness: the receiver of the first of two persisted messages has
\* made a mark-read request.
C12_Witness ==
  /\ Len(messages) >= 2
  /\ resp[1].op = "markRead"
  /\ OID(resp[1].caller) = messages[1].receiver

\* C13: a mark-read by a participant X of conversation c that has unread
\* messages addressed to X emits exactly one messagesRead event, carrying c
\* and X, to the identity room of the other participant.
C13_ReadReceipt ==
  [][\A t \in TokenInputs, params \in RouteParams :
       (/\ MarkRead(1, t, params)
        /\ Authenticated(t)
        /\ \E c \in ConversationWithId(params.conversationId) :
             /\ Caller(t) \in ParticipantSet(c)
             /\ Unread(c._id, Caller(t)) # {})
       => /\ Len(emitted') = Len(emitted) + 1
          /\ LET e == emitted'[Len(emitted')]
             IN /\ e.type = "messagesRead"
                /\ CastObjectId(e.payload.conversationId) =
                     CastObjectId(params.conversationId)
                /\ CastObjectId(e.payload.readerId) = Caller(t)
                /\ \E c \in ConversationWithId(params.conversationId) :
                     CastObjectId(e.room) \in ParticipantSet(c) \ {Caller(t)}
    ]_vars


\* C14: a connection whose token is missing, fails verification or resolves
\* to no existing user is never established and is in no room, on any
\* gateway of the server.
C14_GatewayAuthentication ==
  \A k \in Conns :
    (conns[k].state # "closed" /\ auth(conns[k].token).kind = "null")
    => /\ conns[k].state # "connected"
       /\ conns[k].user.kind = "null"
       /\ conns[k].rooms = {}

\* C15: a closed connection has no rooms and leaves no session to resume,
\* and a connection, first or reconnecting, that is in no room gets into
\* one only in a handshake in which its token passes authentication.
C15_NoSessionResumption ==
  [][\A k \in Conns :
       /\ conns'[k].state = "closed"
            => conns'[k].rooms = {} /\ conns'[k].session.kind = "null"
       /\ (conns[k].rooms = {} /\ conns'[k].rooms # {})
            => /\ conns[k].state = "connecting"
               /\ conns[k].session.kind = "null"
               /\ SocketAuth(conns[k].token).kind = "user"
    ]_vars


\* C16: GET / by X answers 200 with exactly the conversations that have X
\* among their participants, the more recently active first.
C16_ListConversations ==
  [][\A t \in TokenInputs :
       (ListConversations(1, t) /\ Authenticated(t))
       => /\ resp'[1].status = 200
          /\ LET body == resp'[1].body.conversations
             IN /\ {body[k]._id : k \in 1..Len(body)} =
                     {c._id : c \in {d \in conversations :
                                       Caller(t) \in ParticipantSet(d)}}
                /\ \A i, j \in 1..Len(body) :
                     i < j => body[i].lastActive >= body[j].lastActive
    ]_vars

\* The two users a message is between.
PairOf(m) == {m.sender, m.receiver}

\* C17: with sends handled one after the other, a send creates a
\* conversation only when none exists for the unordered pair, and all
\* messages between the same two users, in either direction, carry the
\* same conversation id.
C17_DirectionInsensitive ==
  [][/\ conversations' # conversations /\ send[1].pc = "upsertInsert"
          => ~\E c \in conversations :
                ParticipantSet(c) = {CastObjectId(send[1].sender),
                                     CastObjectId(send[1].receiver)}
     /\ \A i, j \in 1..Len(messages') :
          PairOf(messages'[i]) = PairOf(messages'[j])
            => messages'[i].conversation = messages'[j].conversation
    ]_vars

\* C17 witness: a message from A to B and a later one from B to A share the
\* only conversation.
C17_Witness ==
  /\ Len(messages) = 2
  /\ messages[1].sender = messages[2].receiver
  /\ messages[1].receiver = messages[2].sender
  /\ messages[1].conversation = messages[2].conversation
  /\ Cardinality(conversations) = 1

\* C19: a conversation's lastActive never decreases, and once no send is
\* in flight it is not earlier than the createdAt of any of its messages.
C19_LastActive ==
  [][/\ \A c \in conversations, d \in conversations' :
          d._id = c._id => d.lastActive >= c.lastActive
     /\ (\A p \in Procs : send'[p].pc = "idle")
          => \A d \in conversations', i \in 1..Len(messages') :
               messages'[i].conversation = d._id
                 => d.lastActive >= messages'[i].createdAt
    ]_vars

\* C20: every conversation has exactly two participants, distinct, and the
\* sender and receiver of every message are distinct and are the two
\* participants of the conversation the message references.
C20_MessageConversationConsistency ==
  /\ \A c \in conversations :
       Len(c.participants) = 2 /\ c.participants[1] # c.participants[2]
  /\ \A i \in 1..Len(messages) :
       /\ messages[i].sender # messages[i].receiver
       /\ \E c \in conversations :
            /\ c._id = messages[i].conversation
            /\ ParticipantSet(c) = PairOf(messages[i])

\* C20 witness: two conversations, each with a message.
C20_Witness ==
  /\ Cardinality(conversations) = 2
  /\ Len(messages) = 2
  /\ messages[1].conversation # messages[2].conversation

\* C21: every newMessage event carries a message that is in the store,
\* goes to the room named by that message's receiver and names the
\* message's conversation; no message has two events; an event is emitted
\* only in the step that answers 201 with the message, and every step
\* answering a send with 201 emits one event.
C21_NotifyAfterDurableWrite ==
  [][/\ \A i \in 1..Len(emitted') :
          emitted'[i].type = "newMessage" =>
            LET e == emitted'[i]
            IN /\ \E j \in 1..Len(messages') :
                    /\ messages'[j]._id = e.payload.message._id
                    /\ e.room = ToString(messages'[j].receiver)
                    /\ e.payload.conversationId = messages'[j].conversation
               /\ \A k \in 1..Len(emitted') :
                    (/\ emitted'[k].type = "newMessage"
                     /\ emitted'[k].payload.message._id = e.payload.message._id)
                    => k = i
     /\ \A p \in Procs :
          (resp'[p] # resp[p] /\ resp'[p].op = "send" /\ resp'[p].status = 201)
          => /\ Len(emitted') = Len(emitted) + 1
             /\ emitted'[Len(emitted')].type = "newMessage"
             /\ emitted'[Len(emitted')].payload.message = resp'[p].body.message
             /\ \E j \in 1..Len(messages) :
                  messages[j] = resp'[p].body.message
     /\ emitted' # emitted
          => /\ \E p \in Procs :
                  /\ resp'[p] # resp[p]
                  /\ resp'[p].op = "send" /\ resp'[p].status = 201
             /\ SubSeq(emitted', 1, Len(emitted)) = emitted
    ]_vars

\* C21 witness: one send has been answered 201 and its event emitted, and
\* a later send has failed after its message was saved.
C21_Witness ==
  /\ Len(emitted) = 1
  /\ Len(messages) = 2
  /\ emitted[1].payload.message = messages[1]
  /\ resp[1].op = "send" /\ resp[1].status = 500

\* C22: a mark-read request that changes no message emits no event, and a
\* messagesRead event is emitted only in a step that changes a message.
C22_NoReceiptWithoutChange ==
  [][/\ (resp'[1] # resp[1] /\ resp'[1].op = "markRead"
         /\ messages' = messages)
          => emitted' = emitted
     /\ (emitted' # emitted
         /\ emitted'[Len(emitted')].type = "messagesRead")
          => messages' # messages
    ]_vars

\* C22 witness: a mark-read request has been answered for a caller who has
\* sent a message and to whom no message is addressed.
C22_Witness ==
  /\ resp[1].op = "markRead"
  /\ resp[1].caller \in Users
  /\ \E i \in 1..Len(messages) : messages[i].sender = OID(resp[1].caller)
  /\ \A i \in 1..Len(messages) : messages[i].receiver # OID(resp[1].caller)

\* The unordered role pairs allowed to interact.
AllowedRolePairs == {{"user"}, {"user", "business"}, {"business"}}

C24_IdentityRoom ==
  \A k \in Conns :
    (conns[k].state = "connected" /\ auth(conns[k].token).kind = "user")
    => auth(conns[k].token)._id \in conns[k].rooms

\* C25: on an established connection of any gateway, joinConversation
\* with a malformed id leaves the rooms as they are, sends the client an
\* error event and keeps the connection established; with a well-formed
\* id it adds the room named by the id and removes none.
C25_JoinConversation ==
  [][\A k \in Conns, cid \in ConversationIdInputs :
       (/\ conns[k].state = "connected"
        /\ JoinConversation(k, cid) \/ WsJoinConversation(k, cid))
       => /\ conns'[k].state = "connected"
          /\ IF IsValidObjectId(cid)
             THEN conns'[k].rooms = conns[k].rooms \cup {cid}
             ELSE conns'[k].rooms = conns[k].rooms /\ conns'[k].error
    ]_vars

\* C26: an event emitted to the room of user R is delivered only to
\* connections whose authenticated identity is R, whatever rooms the
\* other connections have asked to join.
C26_EventConfidentiality ==
  \A k \in Conns : \A i \in inbox[k] :
    /\ conns[k].user.kind = "user"
    /\ conns[k].user._id = emitted[i].room

\* An event has been delivered to a connection.
C26_Delivered == \E k \in Conns : inbox[k] # {}

\* A connection is established on the gateway of the entry point.
C26_Established ==
  \E k \in Conns : conns[k].state = "connected" /\ conns[k].gateway = "index"

\* C27: the roles of the two participants of every stored conversation
\* form a pair the interaction type validation lets through.
C27_ConversationsReadable ==
  \A c \in conversations :
    InteractionGate([i \in 1..Len(c.participants) |->
                       role[c.participants[i][2]]]) = 0

\* C28: a connection to the gateway of the entry point whose handshake is
\* done and whose token the REST auth middleware accepts for user X is
\* established with the identity X.
C28_CredentialConsistency ==
  \A k \in Conns :
    (/\ conns[k].gateway = "index"
     /\ conns[k].state \in {"connected", "rejected"}
     /\ auth(conns[k].token).kind = "user")
    => /\ conns[k].state = "connected"
       /\ conns[k].user.kind = "user"
       /\ conns[k].user._id = auth(conns[k].token)._id

\* C29: a MessageSender that has set loading on a connected socket
\* eventually leaves the loading state.
C29_SenderCompletion ==
  \A k \in Conns : conns[k].ui.loading ~> ~conns[k].ui.loading

\* C30: a POST /logout presenting a token t that the auth middleware
\* accepts for user X is answered 200 and removes t, and nothing else,
\* from X's tokens, so that the middleware no longer accepts t.
C30_LogoutRevokes ==
  [][\A t \in TokenInputs :
       (Logout(1, t) /\ Authenticated(t))
       => /\ resp'[1].status = 200
          /\ tokens' = [tokens EXCEPT ![UserOf(auth(t))] = @ \ {t}]
          /\ ~Authenticated(t)'
    ]_vars

====
